---- MODULE Spec2Model ----
(***************************************************************************)
(* A model of the limit-order-book simulator: the order matching book      *)
(* (IndividualOrderBook, and its verbatim copy OrderBook in                *)
(* queue_reactive_model.py), the QueueReactiveModel depth vector, the      *)
(* level-indexed OrderBook and the Simulator loop.                         *)
(*                                                                         *)
(* Prices, tick sizes and the reference price are integers (a fixed        *)
(* number of price units); where the code divides and rounds, the model    *)
(* divides and rounds the same way (Python's round: half to even).         *)
(* An Order object is identified by its creation number, which stands for  *)
(* CPython's id(order) of an object the caller keeps alive.                *)
(***************************************************************************)
EXTENDS Integers, Sequences, FiniteSets, TLC

\* ------------------------------------------------------------- bounds
\* Limit orders ever created in a run of the order matching book.
MaxOrders == 2
\* Limit prices are drawn from 1..MaxPrice.
MaxPrice == 2
\* Order volumes (limit and market) are drawn from 1..MaxVolume.
MaxVolume == 2

\* Queue sizes of the level-indexed books stay within 0..MaxQueue.
MaxQueue == 2
\* A depth replenishment draw (np.random.randint(0, 10)) is taken from 0..MaxDraw.
MaxDraw == 1
\* The reference price stays within MaxRef ticks of 0.
MaxRef == 1
\* num_steps of a run_simulation call is drawn from 0..MaxSteps.
MaxSteps == 2
\* Calls with a level outside [0, K) are made while the level-indexed book
\* tracks fewer than MaxStray such levels.
MaxStray == 1

\* Tick sizes the order matching book is constructed with.
TickSizes == {1, 4}
\* Constructor parameters K and delta of the model, the level-indexed book
\* and the simulator.
Ks == {1, 2}
Deltas == {2}
\* Constructor parameter theta_reinit of the model, in percent (0 <= . <= 100).
ThetaReinits == {0, 100}

VARIABLES
    unit,               \* the object this run exercises
    \* --- order matching book (IndividualOrderBook)
    tick_size,          \* self.tick_size
    bids,               \* self.bids: price key -> sequence of orders
    asks,               \* self.asks: price key -> sequence of orders
    order_id_to_price,  \* self.order_id_to_price: id(order) -> price key
    orders,             \* the Order objects created so far: id -> order.volume
    nextId,             \* creation number of the next Order object
    call,               \* the last call on the book and what it returned
    hung,               \* the last call never returned
    \* --- QueueReactiveModel, level-indexed OrderBook, Simulator
    K,                  \* self.K
    delta,              \* self.delta (the model), self.tick_size (the book)
    theta_reinit,       \* self.theta_reinit, a probability in percent
    order_book_state,   \* QueueReactiveModel.order_book_state: 0..2K-1 -> size
    reference_price,    \* QueueReactiveModel.reference_price
    queue_sizes,        \* OrderBook.queue_sizes: <<side, level>> -> size
    book_reference_price, \* OrderBook.reference_price
    time,               \* Simulator.time
    sim_pc,             \* where Simulator.run_simulation is
    num_steps,          \* run_simulation's argument
    step,               \* run_simulation's loop variable
    results,            \* run_simulation's list of snapshots
    pair                \* two instances on which the same calls are made (or None)

matchingVars == <<tick_size, bids, asks, order_id_to_price, orders, nextId,
                  hung>>

modelVars == <<order_book_state, reference_price>>

bookVars == <<queue_sizes, book_reference_price>>

simVars == <<time, sim_pc, num_steps, step, results>>

vars == <<unit, call, K, delta, theta_reinit, matchingVars, modelVars, bookVars,
          simVars, pair>>

\* ------------------------------------------------------------ helpers
\* Optional[...]: None is the empty tuple and a value x the tuple <<x>>.
None == <<>>

Some(x) == <<x>>

Min2(a, b) == IF a <= b THEN a ELSE b

Max2(a, b) == IF a >= b THEN a ELSE b

SetMin(S) == CHOOSE m \in S : \A x \in S : m <= x

SetMax(S) == CHOOSE m \in S : \A x \in S : m >= x

RECURSIVE SeqSum(_)
SeqSum(s) == IF s = <<>> THEN 0 ELSE Head(s) + SeqSum(Tail(s))

\* sorted(keys, reverse=reverse)
RECURSIVE Sorted(_, _)
Sorted(S, reverse) ==
    IF S = {} THEN <<>>
    ELSE LET m == IF reverse THEN SetMax(S) ELSE SetMin(S)
         IN  <<m>> \o Sorted(S \ {m}, reverse)

\* Python's round(n / d) for integers n and d > 0: nearest, ties to even.
RoundHalfEven(n, d) ==
    LET q == n \div d
        r == n % d
    IN  IF 2 * r < d THEN q
        ELSE IF 2 * r > d THEN q + 1
        ELSE IF q % 2 = 0 THEN q ELSE q + 1

\* defaultdict(list): reading a missing key gives the empty list.
DictGet(d, k) == IF k \in DOMAIN d THEN d[k] ELSE <<>>

DictPut(d, k, v) == [x \in DOMAIN d \cup {k} |-> IF x = k THEN v ELSE d[x]]

DictDel(d, k) == [x \in DOMAIN d \ {k} |-> d[x]]

\* list.pop(i), the list that remains (1-based i)
RemoveAt(q, i) == SubSeq(q, 1, i - 1) \o SubSeq(q, i + 1, Len(q))

\* ----------------------------------------------- order matching book
OrderSides == {"buy", "sell"}

OrderTypes == {"limit", "market", "cancel"}

\* IndividualOrderBook.__init__
EmptyBook == [bids |-> <<>>, asks |-> <<>>, order_id_to_price |-> <<>>]

Book == [bids |-> bids, asks |-> asks, order_id_to_price |-> order_id_to_price]

\* add_order, line 23: the key an order rests under
PriceKey(price, tick) == RoundHalfEven(price, tick) + tick

\* (mutation of AppendOrder: the order is put at the head of the queue)
PrependOrder(queue, id) == <<id>> \o queue

\* add_order, lines 25 and 27: list.append
AppendOrder(queue, id) == Append(queue, id)

\* (mutation of AddOrder: the order is queued but not entered in the index)
AddOrderUnindexed(b, id, side, price, tick) ==
    LET key == PriceKey(price, tick)
    IN  [bids |-> IF side = "buy"
                  THEN DictPut(b.bids, key, Append(DictGet(b.bids, key), id))
                  ELSE b.bids,
         asks |-> IF side = "buy"
                  THEN b.asks
                  ELSE DictPut(b.asks, key, Append(DictGet(b.asks, key), id)),
         order_id_to_price |-> b.order_id_to_price]

\* add_order for a limit order (lines 23-29)
AddOrder(b, id, side, price, tick) ==
    LET key == PriceKey(price, tick)
    IN  [bids |-> IF side = "buy"
                  THEN DictPut(b.bids, key, AppendOrder(DictGet(b.bids, key), id))
                  ELSE b.bids,
         asks |-> IF side = "buy"
                  THEN b.asks
                  ELSE DictPut(b.asks, key, AppendOrder(DictGet(b.asks, key), id)),
         order_id_to_price |-> DictPut(b.order_id_to_price, id, key)]

\* cancel_order, line 36: which dict the order is searched in
CancelSide(b, price) == IF price \in DOMAIN b.bids THEN "buy" ELSE "sell"

\* cancel_order, lines 40-41: the position of the order in the queue, 0 if absent
IndexOf(queue, order_id) ==
    IF \E i \in 1..Len(queue) : queue[i] = order_id
    THEN SetMin({i \in 1..Len(queue) : queue[i] = order_id})
    ELSE 0

\* (mutation of CancelOrder: a price whose queue the removal empties is
\* dropped from the dict)
CancelOrderPruning(b, order_id) ==
    IF order_id \notin DOMAIN b.order_id_to_price
    THEN [book |-> b, ret |-> None]
    ELSE
      LET price == b.order_id_to_price[order_id]
          side  == CancelSide(b, price)
          queue == IF side = "buy" THEN b.bids[price] ELSE DictGet(b.asks, price)
          i     == IndexOf(queue, order_id)
          put(d) == IF RemoveAt(queue, i) = <<>> THEN DictDel(d, price)
                    ELSE DictPut(d, price, RemoveAt(queue, i))
      IN  IF i = 0
          THEN [book |-> b, ret |-> None]
          ELSE [book |->
                  [bids |-> IF side = "buy" THEN put(b.bids) ELSE b.bids,
                   asks |-> IF side = "buy" THEN b.asks ELSE put(b.asks),
                   order_id_to_price |-> DictDel(b.order_id_to_price, order_id)],
                ret |-> Some(order_id)]

\* cancel_order: the book afterwards and the value returned
CancelOrder(b, order_id) ==
    IF order_id \notin DOMAIN b.order_id_to_price
    THEN [book |-> b, ret |-> None]
    ELSE
      LET price == b.order_id_to_price[order_id]
          side  == CancelSide(b, price)
          queue == IF side = "buy" THEN b.bids[price] ELSE DictGet(b.asks, price)
          i     == IndexOf(queue, order_id)
          \* side[price] on a defaultdict creates a missing key
          touched == IF side = "buy" THEN b
                     ELSE [b EXCEPT !.asks = DictPut(b.asks, price, queue)]
      IN  IF i = 0
          THEN [book |-> touched, ret |-> None]
          ELSE [book |->
                  [bids |-> IF side = "buy"
                            THEN DictPut(b.bids, price, RemoveAt(queue, i))
                            ELSE b.bids,
                   asks |-> IF side = "buy"
                            THEN b.asks
                            ELSE DictPut(b.asks, price, RemoveAt(queue, i)),
                   order_id_to_price |-> DictDel(b.order_id_to_price, order_id)],
                ret |-> Some(order_id)]

\* match_market_order, line 51: the dict the aggressor matches into
OppositeQueues(s, side) == IF side = "buy" THEN s.book.asks ELSE s.book.bids

\* match_market_order, line 52: the prices in the order they are walked
WalkOrder(keys, side) == Sorted(keys, side = "buy")

\* match_market_order, line 56: the resting order a fill is taken from
NextResting(queue) == Head(queue)

\* match_market_order, line 57
MatchedVolume(resting, remaining) == Min2(resting, remaining)

\* match_market_order, lines 56-70: one pass of the while loop's body.
\* s = [book, orders, remaining_volume, matched_orders, diverged]
WhileBody(s, side, price) ==
    LET matched_order  == NextResting(DictGet(OppositeQueues(s, side), price))
        matched_volume == MatchedVolume(s.orders[matched_order],
                                        s.remaining_volume)
        left           == s.orders[matched_order] - matched_volume
        cancelled      == IF left = 0
                          THEN CancelOrder(s.book, matched_order).book
                          ELSE s.book
    IN  [s EXCEPT
           !.matched_orders = Append(@, [price |-> price, volume |-> matched_volume]),
           !.remaining_volume = @ - matched_volume,
           !.orders[matched_order] = left,
           !.book = cancelled]

\* match_market_order, line 55: the while loop at one price.  A pass that
\* leaves the book, the orders and the remaining volume as they were while
\* the loop condition holds is repeated for ever: the call never returns.
RECURSIVE WhileLoop(_, _, _)
WhileLoop(s, side, price) ==
    IF ~(DictGet(OppositeQueues(s, side), price) # <<>> /\ s.remaining_volume > 0)
    THEN s
    ELSE LET t == WhileBody(s, side, price)
         IN  IF /\ t.book = s.book
                /\ t.orders = s.orders
                /\ t.remaining_volume = s.remaining_volume
             THEN [t EXCEPT !.diverged = TRUE]
             ELSE WhileLoop(t, side, price)

\* match_market_order, lines 54-73: the for loop over the sorted prices
RECURSIVE ForLoop(_, _, _)
ForLoop(s, side, prices) ==
    IF prices = <<>> THEN s
    ELSE LET t == WhileLoop(s, side, Head(prices))
         IN  IF t.diverged \/ t.remaining_volume = 0
             THEN t
             ELSE ForLoop(t, side, Tail(prices))

\* match_market_order(order) for order.side = side, order.volume = volume
MatchMarketOrder(b, ords, side, volume) ==
    LET s0 == [book |-> b, orders |-> ords, remaining_volume |-> volume,
               matched_orders |-> <<>>, diverged |-> FALSE]
    IN  ForLoop(s0, side, WalkOrder(DOMAIN OppositeQueues(s0, side), side))

\* get_best_bid / get_best_ask (lines 77-83)
GetBestBid(b) == IF DOMAIN b.bids # {} THEN Some(SetMax(DOMAIN b.bids)) ELSE None

GetBestAsk(b) == IF DOMAIN b.asks # {} THEN Some(SetMin(DOMAIN b.asks)) ELSE None

\* ------------------------------------------------- the calls recorded
NoCall == [op |-> "none", id |-> 0, side |-> "", level |-> 0, volume |-> 0,
           before |-> 0, ret |-> None, fills |-> <<>>, remaining |-> 0,
           raised |-> FALSE, event |-> "", draws |-> <<>>, price |-> 0]

\* The state the constructors leave, for parameters k and d.
Constructed(k, d) ==
    /\ K = k
    /\ delta = d
    /\ bids = EmptyBook.bids
    /\ asks = EmptyBook.asks
    /\ order_id_to_price = EmptyBook.order_id_to_price
    /\ orders = <<>>
    /\ nextId = 1
    /\ call = NoCall
    /\ hung = FALSE
    /\ order_book_state = [i \in 0..(2 * k - 1) |-> 0]
    /\ reference_price = 0
    /\ queue_sizes = <<>>
    /\ book_reference_price = 0
    /\ time = 0
    /\ sim_pc = "idle"
    /\ num_steps = 0
    /\ step = 0
    /\ results = <<>>

InitMatching ==
    /\ unit = "IndividualOrderBook"
    /\ theta_reinit = 0
    /\ pair = None
    /\ tick_size \in TickSizes
    /\ Constructed(1, 1)

\* book.add_order(Order(type, side, price, volume)) on a new Order object
DoAddOrder(type, side, price, volume) ==
    /\ unit = "IndividualOrderBook"
    /\ ~hung
    /\ nextId <= MaxOrders
    /\ IF type # "limit"
       THEN /\ call' = [NoCall EXCEPT !.op = "add", !.raised = TRUE]
            /\ UNCHANGED <<bids, asks, order_id_to_price, orders, nextId>>
       ELSE LET b == AddOrder(Book, nextId, side, price, tick_size)
            IN  /\ bids' = b.bids
                /\ asks' = b.asks
                /\ order_id_to_price' = b.order_id_to_price
                /\ orders' = DictPut(orders, nextId, volume)
                /\ nextId' = nextId + 1
                /\ call' = [NoCall EXCEPT !.op = "add", !.id = nextId,
                                          !.price = price]
    /\ UNCHANGED <<unit, tick_size, hung, K, delta, theta_reinit, pair, modelVars, bookVars, simVars>>

\* book.cancel_order(order_id)
DoCancelOrder(order_id) ==
    /\ unit = "IndividualOrderBook"
    /\ ~hung
    /\ LET r == CancelOrder(Book, order_id)
       IN  /\ bids' = r.book.bids
           /\ asks' = r.book.asks
           /\ order_id_to_price' = r.book.order_id_to_price
           /\ call' = [NoCall EXCEPT !.op = "cancel", !.id = order_id, !.ret = r.ret]
    /\ UNCHANGED <<unit, tick_size, orders, nextId, hung, K, delta, theta_reinit, pair, modelVars,
                   bookVars, simVars>>

\* book.match_market_order(Order(MARKET, side, _, volume))
DoMatchMarketOrder(side, volume) ==
    /\ unit = "IndividualOrderBook"
    /\ ~hung
    /\ LET r == MatchMarketOrder(Book, orders, side, volume)
       IN  /\ bids' = r.book.bids
           /\ asks' = r.book.asks
           /\ order_id_to_price' = r.book.order_id_to_price
           /\ orders' = r.orders
           /\ hung' = r.diverged
           /\ call' = [NoCall EXCEPT !.op = "match", !.side = side,
                          !.volume = volume, !.fills = r.matched_orders,
                          !.remaining = r.remaining_volume]
    /\ UNCHANGED <<unit, tick_size, nextId, K, delta, theta_reinit, pair, modelVars, bookVars, simVars>>

NextMatching ==
    \/ \E type \in OrderTypes, side \in OrderSides,
          price \in 1..MaxPrice, volume \in 1..MaxVolume :
          DoAddOrder(type, side, price, volume)
    \/ \E order_id \in 1..MaxOrders : DoCancelOrder(order_id)
    \/ \E side \in OrderSides, volume \in 1..MaxVolume :
          DoMatchMarketOrder(side, volume)

SpecMatching == InitMatching /\ [][NextMatching]_vars

\* ------------------------------------------------ QueueReactiveModel
\* The event types both event clocks draw from.
EventTypes == {"limit", "market", "cancel"}

\* The side names the model's handlers accept (lines 55, 62, 69).
SideNames == {"bid", "ask"}

\* str(side) of an OrderSide member, as the simulator passes it on.
EnumStr(side) == IF side = "buy" THEN "OrderSide.BUY" ELSE "OrderSide.SELL"

Model == [order_book_state |-> order_book_state,
          reference_price |-> reference_price]

\* lines 57, 71 and 87: the cell of the depth vector for (side, level)
LevelIndex(k, side, level) == IF side = "bid" THEN k + level ELSE k - 1 - level

\* get_queue_size (lines 86-88)
GetQueueSize(m, k, side, level) == m.order_book_state[LevelIndex(k, side, level)]

\* (mutation of HandleLimitOrder: the volume goes to the bid cell of the level
\* whatever the side)
HandleLimitOrderBidOnly(m, k, side, level, volume) ==
    IF side \notin SideNames \/ level < 0 \/ level >= k \/ volume <= 0
    THEN [raised |-> TRUE, model |-> m]
    ELSE [raised |-> FALSE,
          model |-> [m EXCEPT !.order_book_state[k + level] = @ + volume]]

\* handle_limit_order (lines 54-59)
HandleLimitOrder(m, k, side, level, volume) ==
    IF side \notin SideNames \/ level < 0 \/ level >= k \/ volume <= 0
    THEN [raised |-> TRUE, model |-> m]
    ELSE [raised |-> FALSE,
          model |-> [m EXCEPT !.order_book_state[LevelIndex(k, side, level)] =
                                 @ + volume]]

\* handle_market_order (lines 61-66)
HandleMarketOrder(m, k, side, volume) ==
    IF side \notin SideNames \/ volume <= 0
    THEN [raised |-> TRUE, model |-> m]
    ELSE LET index == IF side = "ask" THEN k ELSE k - 1
         IN  [raised |-> FALSE,
              model |-> [m EXCEPT !.order_book_state[index] =
                                     @ - Min2(volume, @)]]

\* (mutation of CancelledSize: the result is not clamped at 0)
CancelledSizeUnclamped(size, volume) == size - volume

\* handle_cancellation, line 72
CancelledSize(size, volume) == Max2(0, size - volume)

\* handle_cancellation (lines 68-73)
HandleCancellation(m, k, side, level, volume) ==
    IF side \notin SideNames \/ level < 0 \/ level >= k \/ volume <= 0
    THEN [raised |-> TRUE, model |-> m]
    ELSE [raised |-> FALSE,
          model |-> [m EXCEPT !.order_book_state[LevelIndex(k, side, level)] =
                                 CancelledSize(@, volume)]]

\* (mutation of ShiftOrderBook: the emptied best-level slot is dropped at the
\* mid and the level it would have become is drawn afresh)
ShiftOrderBookDropping(state, k, direction, draw) ==
    IF direction = "right"
    THEN [i \in 0..(2 * k - 1) |-> IF i = 0 \/ i = k THEN draw
                                   ELSE state[i - 1]]
    ELSE IF direction = "left"
    THEN [i \in 0..(2 * k - 1) |-> IF i = 2 * k - 1 \/ i = k - 1 THEN draw
                                   ELSE state[i + 1]]
    ELSE state

\* _shift_order_book (lines 45-52); draw is np.random.randint(0, 10)
ShiftOrderBook(state, k, direction, draw) ==
    IF direction = "right"
    THEN [i \in 0..(2 * k - 1) |-> IF i = 0 THEN draw ELSE state[i - 1]]
    ELSE IF direction = "left"
    THEN [i \in 0..(2 * k - 1) |-> IF i = 2 * k - 1 THEN draw ELSE state[i + 1]]
    ELSE state

\* (mutation of UpdateReferencePrice: the empty best bid is looked at first)
UpdateReferencePriceDownFirst(m, k, d, fires, draw) ==
    IF fires /\ m.order_book_state[k] = 0
    THEN [order_book_state |-> ShiftOrderBook(m.order_book_state, k, "left", draw),
          reference_price |-> m.reference_price - d]
    ELSE IF fires /\ m.order_book_state[k - 1] = 0
    THEN [order_book_state |-> ShiftOrderBook(m.order_book_state, k, "right", draw),
          reference_price |-> m.reference_price + d]
    ELSE m

\* update_reference_price (lines 35-43); fires is random.random() < theta
UpdateReferencePrice(m, k, d, fires, draw) ==
    IF fires /\ m.order_book_state[k - 1] = 0
    THEN [order_book_state |-> ShiftOrderBook(m.order_book_state, k, "right", draw),
          reference_price |-> m.reference_price + d]
    ELSE IF fires /\ m.order_book_state[k] = 0
    THEN [order_book_state |-> ShiftOrderBook(m.order_book_state, k, "left", draw),
          reference_price |-> m.reference_price - d]
    ELSE m

\* One pass of the loop of QueueReactiveModel.run_simulation (lines 98-106)
\* for the event drawn by simulate_next_event (lines 90-95): the handler of
\* the event, then update_reference_price.  An error of the handler ends the
\* run before the controller is evaluated.
ModelRunPass(m, k, d, event, fires, draw) ==
    LET r == IF event[1] = "limit"
             THEN HandleLimitOrder(m, k, event[2], event[3], event[4])
             ELSE IF event[1] = "market"
             THEN HandleMarketOrder(m, k, event[2], event[4])
             ELSE HandleCancellation(m, k, event[2], event[3], event[4])
    IN  IF r.raised THEN r
        ELSE [raised |-> FALSE,
              model |-> UpdateReferencePrice(r.model, k, d, fires, draw)]

InModel == unit \in {"QueueReactiveModel", "Simulator"}

\* The model stays within the bounds of this development.
ModelInBounds(m) ==
    /\ \A i \in DOMAIN m.order_book_state : m.order_book_state[i] <= MaxQueue
    /\ m.reference_price <= MaxRef * delta
    /\ m.reference_price >= -(MaxRef * delta)

ModelCall(op, side, level, volume, raised, before) ==
    [NoCall EXCEPT !.op = op, !.side = side, !.level = level,
                   !.volume = volume, !.raised = raised, !.before = before]

\* model.initialize_order_book() (lines 31-33)
DoInitializeOrderBook(draws) ==
    /\ InModel
    /\ sim_pc # "running"
    /\ order_book_state' = draws
    /\ call' = [NoCall EXCEPT !.op = "initialize_order_book"]
    /\ UNCHANGED <<unit, K, delta, theta_reinit, pair, reference_price, tick_size, matchingVars,
                   bookVars, simVars>>

\* model.update_reference_price()
DoUpdateReferencePrice(fires, draw) ==
    /\ InModel
    /\ sim_pc # "running"
    /\ LET m == UpdateReferencePrice(Model, K, delta, fires, draw)
       IN  /\ ModelInBounds(m)
           /\ order_book_state' = m.order_book_state
           /\ reference_price' = m.reference_price
    /\ call' = [NoCall EXCEPT !.op = "update_reference_price",
                              !.before = reference_price,
                              !.draws = <<fires, draw>>]
    /\ UNCHANGED <<unit, K, delta, theta_reinit, pair, tick_size, matchingVars, bookVars, simVars>>

\* model.handle_limit_order(side, level, volume)
DoHandleLimitOrder(side, level, volume) ==
    /\ InModel
    /\ sim_pc # "running"
    /\ LET r == HandleLimitOrder(Model, K, side, level, volume)
       IN  /\ ModelInBounds(r.model)
           /\ order_book_state' = r.model.order_book_state
           /\ call' = ModelCall("handle_limit_order", side, level, volume, r.raised,
                                IF r.raised THEN 0
                                ELSE GetQueueSize(Model, K, side, level))
    /\ UNCHANGED <<unit, K, delta, theta_reinit, pair, reference_price, tick_size, matchingVars,
                   bookVars, simVars>>

\* model.handle_market_order(side, volume)
DoHandleMarketOrder(side, volume) ==
    /\ InModel
    /\ sim_pc # "running"
    /\ LET r == HandleMarketOrder(Model, K, side, volume)
       IN  /\ order_book_state' = r.model.order_book_state
           /\ call' = ModelCall("handle_market_order", side, 0, volume, r.raised,
                                IF r.raised THEN 0
                                ELSE order_book_state[IF side = "ask" THEN K
                                                      ELSE K - 1])
    /\ UNCHANGED <<unit, K, delta, theta_reinit, pair, reference_price, tick_size, matchingVars,
                   bookVars, simVars>>

\* model.handle_cancellation(side, level, volume)
DoHandleCancellation(side, level, volume) ==
    /\ InModel
    /\ sim_pc # "running"
    /\ LET r == HandleCancellation(Model, K, side, level, volume)
       IN  /\ order_book_state' = r.model.order_book_state
           /\ call' = ModelCall("handle_cancellation", side, level, volume, r.raised,
                                IF r.raised THEN 0
                                ELSE GetQueueSize(Model, K, side, level))
    /\ UNCHANGED <<unit, K, delta, theta_reinit, pair, reference_price, tick_size, matchingVars,
                   bookVars, simVars>>

\* The arguments the handlers are called with: every valid triple, and one
\* triple for each way of being invalid (a side name the model does not
\* know, a level on either side of [0, K), a volume of 0).
HandlerArgs ==
    (SideNames \X (0..(K - 1)) \X (1..MaxVolume))
    \cup {<<"OrderSide.BUY", 0, 1>>, <<"bid", -1, 1>>, <<"ask", K, 1>>,
          <<"bid", 0, 0>>}

MarketArgs ==
    (SideNames \X (1..MaxVolume)) \cup {<<"OrderSide.SELL", 1>>, <<"ask", 0>>}

NextModel ==
    \/ \E draws \in [0..(2 * K - 1) -> 0..MaxDraw] : DoInitializeOrderBook(draws)
    \/ \E fires \in BOOLEAN, draw \in 0..MaxDraw : DoUpdateReferencePrice(fires, draw)
    \/ \E a \in HandlerArgs : DoHandleLimitOrder(a[1], a[2], a[3])
    \/ \E a \in MarketArgs : DoHandleMarketOrder(a[1], a[2])
    \/ \E a \in HandlerArgs : DoHandleCancellation(a[1], a[2], a[3])

InitModel ==
    /\ unit = "QueueReactiveModel"
    /\ theta_reinit \in ThetaReinits
    /\ pair = None
    /\ tick_size = 1
    /\ \E k \in Ks, d \in Deltas : Constructed(k, d)

SpecModel == InitModel /\ [][NextModel]_vars

\* One pass of model.run_simulation: simulate_next_event draws the event
\* (event type, side, level, volume), the pass applies it and evaluates the
\* controller with its own draws.
DoModelRunPass(event, fires, draw) ==
    /\ InModel
    /\ sim_pc # "running"
    /\ LET r == ModelRunPass(Model, K, delta, event, fires, draw)
       IN  /\ ModelInBounds(r.model)
           /\ order_book_state' = r.model.order_book_state
           /\ reference_price' = r.model.reference_price
           /\ call' = [ModelCall("model_pass", event[2], event[3], event[4],
                                 r.raised,
                                 GetQueueSize(Model, K, event[2], event[3]))
                          EXCEPT !.event = event[1], !.draws = <<fires, draw>>]
    /\ UNCHANGED <<unit, K, delta, theta_reinit, pair, tick_size, matchingVars,
                   bookVars, simVars>>

\* The model with its own run loop.
NextModelRun ==
    \/ NextModel
    \/ \E event \in EventTypes \X SideNames \X (0..(K - 1)) \X (1..MaxVolume),
          fires \in BOOLEAN, draw \in 0..MaxDraw :
          DoModelRunPass(event, fires, draw)

SpecModelRun == InitModel /\ [][NextModelRun]_vars

\* ------------------------------------------- level-indexed OrderBook
LevelBook == [queue_sizes |-> queue_sizes, reference_price |-> book_reference_price]

\* get_queue_size (order_book.py lines 19-21)
BookGetQueueSize(qs, side, level) ==
    IF <<side, level>> \in DOMAIN qs THEN qs[<<side, level>>] ELSE 0

\* (mutation of ClampedSize: the size is stored as computed)
UnclampedSize(size) == size

\* update_queue_size, line 17
ClampedSize(size) == Max2(0, size)

\* update_queue_size (lines 13-17)
UpdateQueueSize(qs, side, level, change) ==
    DictPut(qs, <<side, level>>,
            ClampedSize(BookGetQueueSize(qs, side, level) + change))

\* _shift_queues, line 71
ShiftedLevel(side, level, shift) ==
    IF side = "buy" THEN level - shift ELSE level + shift

\* _shift_queues (lines 67-74).  The loop runs over the old dict and fills
\* one new dict, which line 74 binds to self.queue_sizes in every pass; an
\* empty old dict leaves self.queue_sizes as it is, which is empty too.
ShiftQueues(qs, k, shift) ==
    LET kept == {key \in DOMAIN qs :
                   /\ 0 <= ShiftedLevel(key[1], key[2], shift)
                   /\ ShiftedLevel(key[1], key[2], shift) < k}
        moved(key) == <<key[1], ShiftedLevel(key[1], key[2], shift)>>
    IN  [nk \in {moved(key) : key \in kept} |->
            qs[CHOOSE key \in kept : moved(key) = nk]]

\* update_reference_price (order_book.py lines 23-28)
BookUpdateReferencePrice(b, k, tick, new_price) ==
    LET price_change == RoundHalfEven(new_price - b.reference_price, tick)
    IN  IF price_change # 0
        THEN [queue_sizes |-> ShiftQueues(b.queue_sizes, k, price_change),
              reference_price |-> new_price]
        ELSE b

\* The levels of one side that hold volume.
NonEmptyLevels(b, k, side) ==
    {level \in 0..(k - 1) : BookGetQueueSize(b.queue_sizes, side, level) > 0}

\* get_best_bid (lines 30-33)
BookBestBid(b, k, tick) ==
    IF NonEmptyLevels(b, k, "buy") = {} THEN None
    ELSE Some(b.reference_price - SetMin(NonEmptyLevels(b, k, "buy")) * tick)

\* get_best_ask (lines 35-38)
BookBestAsk(b, k, tick) ==
    IF NonEmptyLevels(b, k, "sell") = {} THEN None
    ELSE Some(b.reference_price + SetMin(NonEmptyLevels(b, k, "sell")) * tick)

\* get_mid_price (lines 40-45): (best_bid + best_ask) / 2 as a fraction
BookMidPrice(b, k, tick) ==
    IF BookBestBid(b, k, tick) # None /\ BookBestAsk(b, k, tick) # None
    THEN Some([num |-> BookBestBid(b, k, tick)[1] + BookBestAsk(b, k, tick)[1],
               den |-> 2])
    ELSE None

\* get_spread (lines 47-52)
BookSpread(b, k, tick) ==
    IF BookBestBid(b, k, tick) # None /\ BookBestAsk(b, k, tick) # None
    THEN Some(BookBestAsk(b, k, tick)[1] - BookBestBid(b, k, tick)[1])
    ELSE None

\* get_order_book_state (lines 54-65): the dict returned
BookStateDict(b, k, tick) ==
    LET bid(i) == [price |-> b.reference_price - (i - 1) + tick,
                   size |-> BookGetQueueSize(b.queue_sizes, "buy", i - 1)]
        ask(i) == [price |-> b.reference_price + (i - 1) * tick,
                   size |-> BookGetQueueSize(b.queue_sizes, "sell", i - 1)]
    IN  [bids |-> SelectSeq([i \in 1..k |-> bid(i)], LAMBDA e : e.price > 0),
         asks |-> SelectSeq([i \in 1..k |-> ask(i)], LAMBDA e : e.price > 0)]

\* get_order_book_state, lines 59-60: reading the defaultdict adds the keys
BookStateTouched(qs, k) ==
    [key \in DOMAIN qs \cup (OrderSides \X (0..(k - 1))) |->
        BookGetQueueSize(qs, key[1], key[2])]

InitLevelBook ==
    /\ unit = "OrderBook"
    /\ theta_reinit = 0
    /\ pair = None
    /\ tick_size = 1
    /\ \E k \in Ks, d \in Deltas : Constructed(k, d)

\* order_book.update_queue_size(side, level, change)
DoUpdateQueueSize(side, level, change) ==
    /\ unit = "OrderBook"
    /\ queue_sizes' = UpdateQueueSize(queue_sizes, side, level, change)
    /\ queue_sizes'[<<side, level>>] <= MaxQueue
    /\ call' = ModelCall("update_queue_size", side, level, change, FALSE,
                         BookGetQueueSize(queue_sizes, side, level))
    /\ UNCHANGED <<unit, K, delta, theta_reinit, pair, book_reference_price, tick_size, matchingVars,
                   modelVars, simVars>>

\* order_book.update_reference_price(new_price)
DoBookUpdateReferencePrice(new_price) ==
    /\ unit = "OrderBook"
    /\ LET b == BookUpdateReferencePrice(LevelBook, K, delta, new_price)
       IN  /\ queue_sizes' = b.queue_sizes
           /\ book_reference_price' = b.reference_price
    /\ call' = [NoCall EXCEPT !.op = "book_update_reference_price",
                              !.volume = new_price,
                              !.before = book_reference_price]
    /\ UNCHANGED <<unit, K, delta, theta_reinit, pair, tick_size, matchingVars, modelVars, simVars>>

\* order_book.get_order_book_state() (lines 54-65): it returns the depth
\* dict, and its reads of the defaultdict (lines 59-60) add every key of the
\* window to queue_sizes.
DoGetOrderBookState ==
    /\ unit = "OrderBook"
    /\ queue_sizes' = BookStateTouched(queue_sizes, K)
    /\ call' = [NoCall EXCEPT !.op = "get_order_book_state",
                              !.ret = Some(BookStateDict(LevelBook, K, delta))]
    /\ UNCHANGED <<unit, K, delta, theta_reinit, pair, book_reference_price,
                   tick_size, matchingVars, modelVars, simVars>>

NextLevelBook ==
    \/ \E side \in OrderSides, level \in 0..(K - 1),
          change \in (-MaxVolume)..MaxVolume :
          DoUpdateQueueSize(side, level, change)
    \/ \E new_price \in (-(MaxRef * delta))..(MaxRef * delta) :
          DoBookUpdateReferencePrice(new_price)
    \/ DoGetOrderBookState

SpecLevelBook == InitLevelBook /\ [][NextLevelBook]_vars

\* The keys of queue_sizes for levels outside the window [0, K).
StrayKeys(qs, k) == {key \in DOMAIN qs : key[2] \notin 0..(k - 1)}

\* The level-indexed book called with any level: also the two levels next to
\* the window [0, K).
NextLevelBookAnyLevel ==
    \/ NextLevelBook
    \/ \E side \in OrderSides, level \in {-1, K} :
          /\ Cardinality(StrayKeys(queue_sizes, K)) < MaxStray
          /\ DoUpdateQueueSize(side, level, 1)

\* ---------------------------------------------------------- Simulator
\* _process_event (simulator.py lines 41-48)
ProcessEvent(m, k, event_type, side, level, volume) ==
    IF event_type = "limit"
    THEN HandleLimitOrder(m, k, EnumStr(side), level, volume)
    ELSE IF event_type = "market"
    THEN HandleMarketOrder(m, k, EnumStr(side), level)
    ELSE HandleCancellation(m, k, EnumStr(side), level, volume)

\* _update_order_book, lines 56-59: the loops over side and level, as the
\* sequence of pairs they visit
RECURSIVE MirrorQueues(_, _, _, _)
MirrorQueues(qs, m, k, pairs) ==
    IF pairs = <<>> THEN qs
    ELSE LET side  == Head(pairs)[1]
             level == Head(pairs)[2]
             queue_size == GetQueueSize(m, k, EnumStr(side), level)
         IN  MirrorQueues(
                UpdateQueueSize(qs, side, level,
                    queue_size - BookGetQueueSize(qs, side, level)),
                m, k, Tail(pairs))

MirrorPairs(k) ==
    [i \in 1..(2 * k) |-> IF i <= k THEN <<"buy", i - 1>> ELSE <<"sell", i - k - 1>>]

\* _update_order_book (lines 50-59)
SimUpdateOrderBook(m, b, k, tick) ==
    LET b1 == BookUpdateReferencePrice(b, k, tick, m.reference_price)
    IN  [queue_sizes |-> MirrorQueues(b1.queue_sizes, m, k, MirrorPairs(k)),
         reference_price |-> b1.reference_price]

\* _get_current_state (lines 61-68)
SimCurrentState(b, k, tick, now) ==
    [time |-> now,
     reference_price |-> b.reference_price,
     mid_price |-> BookMidPrice(b, k, tick),
     spread |-> BookSpread(b, k, tick),
     order_book_state |-> BookStateDict(b, k, tick)]

InitSimulator ==
    /\ unit = "Simulator"
    /\ theta_reinit \in ThetaReinits
    /\ pair = None
    /\ tick_size = 1
    /\ \E k \in Ks, d \in Deltas : Constructed(k, d)

\* simulator.run_simulation(n): the call, up to the loop (lines 15-17)
DoRunSimulation(n) ==
    /\ unit = "Simulator"
    /\ sim_pc # "running"
    /\ sim_pc' = "running"
    /\ num_steps' = n
    /\ step' = 0
    /\ results' = <<>>
    /\ call' = [NoCall EXCEPT !.op = "run_simulation", !.volume = n]
    /\ UNCHANGED <<unit, K, delta, theta_reinit, pair, tick_size, time, matchingVars, modelVars,
                   bookVars>>

\* One pass of run_simulation's loop (lines 20-27) on model m and book b at
\* time now, for the event drawn by _generate_next_event: what it leaves, or
\* that the model raised a ValueError (which ends the run).
SimPass(m, b, k, tick, now, event) ==
    LET r  == ProcessEvent(m, k, event[1], event[2], event[3], event[4])
        b1 == SimUpdateOrderBook(r.model, b, k, tick)
    IN  IF r.raised
        THEN [raised |-> TRUE, model |-> m, book |-> b, snapshot |-> None,
              time |-> now]
        ELSE [raised |-> FALSE, model |-> r.model,
              book |-> [queue_sizes |-> BookStateTouched(b1.queue_sizes, k),
                        reference_price |-> b1.reference_price],
              snapshot |-> Some(SimCurrentState(b1, k, tick, now)),
              time |-> now + 1]

\* One pass of run_simulation's loop (lines 18-29) for the event drawn by
\* _generate_next_event (lines 34-39): a ValueError of the model ends the run.
SimStep(event_type, side, level, volume) ==
    /\ unit = "Simulator"
    /\ sim_pc = "running"
    /\ step < num_steps
    /\ LET r == SimPass(Model, LevelBook, K, delta, time,
                        <<event_type, side, level, volume>>)
       IN  IF r.raised
           THEN /\ sim_pc' = "raised"
                /\ UNCHANGED <<modelVars, bookVars, time, step, results>>
           ELSE /\ ModelInBounds(r.model)
                /\ order_book_state' = r.model.order_book_state
                /\ reference_price' = r.model.reference_price
                /\ queue_sizes' = r.book.queue_sizes
                /\ book_reference_price' = r.book.reference_price
                /\ results' = Append(results, r.snapshot[1])
                /\ time' = r.time
                /\ step' = step + 1
                /\ sim_pc' = "running"
    /\ call' = [NoCall EXCEPT !.op = "run_simulation", !.volume = num_steps]
    /\ UNCHANGED <<unit, K, delta, theta_reinit, pair, tick_size, num_steps, matchingVars>>

\* run_simulation returns its results (lines 30-32)
SimReturn ==
    /\ unit = "Simulator"
    /\ sim_pc = "running"
    /\ step = num_steps
    /\ sim_pc' = "returned"
    /\ UNCHANGED <<unit, call, K, delta, theta_reinit, pair, tick_size, time, num_steps, step, results,
                   matchingVars, modelVars, bookVars>>

NextSimulator ==
    \/ NextModel
    \/ \E n \in 0..MaxSteps : DoRunSimulation(n)
    \/ \E event_type \in EventTypes, side \in OrderSides, level \in 0..(K - 1),
          volume \in 1..MaxVolume : SimStep(event_type, side, level, volume)
    \/ SimReturn

SpecSimulator == InitSimulator /\ [][NextSimulator]_vars

\* simulator._update_order_book() outside a run (lines 50-59)
DoSimUpdateOrderBook ==
    /\ unit = "Simulator"
    /\ sim_pc # "running"
    /\ LET b == SimUpdateOrderBook(Model, LevelBook, K, delta)
       IN  /\ queue_sizes' = b.queue_sizes
           /\ book_reference_price' = b.reference_price
    /\ call' = [NoCall EXCEPT !.op = "_update_order_book"]
    /\ UNCHANGED <<unit, K, delta, theta_reinit, pair, tick_size, matchingVars,
                   modelVars, simVars>>

\* simulator._get_current_state() outside a run (lines 61-68): it returns
\* the snapshot, and get_order_book_state adds the keys of the window to the
\* book's queue_sizes.
DoSimGetCurrentState ==
    /\ unit = "Simulator"
    /\ sim_pc # "running"
    /\ queue_sizes' = BookStateTouched(queue_sizes, K)
    /\ call' = [NoCall EXCEPT !.op = "_get_current_state",
                              !.ret = Some(SimCurrentState(LevelBook, K, delta, time))]
    /\ UNCHANGED <<unit, K, delta, theta_reinit, pair, book_reference_price,
                   tick_size, matchingVars, modelVars, simVars>>

\* A simulator on which no run is made: calls on its model, and the
\* mirroring and snapshot steps called on their own.
InitMirror ==
    /\ unit = "Simulator"
    /\ theta_reinit = 0
    /\ pair = None
    /\ tick_size = 1
    /\ \E k \in Ks, d \in Deltas : Constructed(k, d)

NextMirror ==
    \/ NextModel
    \/ DoSimUpdateOrderBook
    \/ DoSimGetCurrentState

SpecMirror == InitMirror /\ [][NextMirror]_vars

\* ------------------------------------------------- unions of the units
\* The two books that quote a best bid and a best ask.
InitBooks == InitMatching \/ InitLevelBook

SpecBooks == InitBooks /\ [][NextMatching \/ NextLevelBook]_vars

\* The two level-indexed depth representations.
InitLevels == InitModel \/ InitLevelBook

SpecLevels == InitLevels /\ [][NextModel \/ NextLevelBook]_vars

\* The same, with levels outside the window among the arguments.
SpecAdjust == InitLevels /\ [][NextModel \/ NextLevelBookAnyLevel]_vars

\* ------------------------------------- two instances, the same calls
\* A Simulator as its constructor leaves it: its model, its level-indexed
\* book, its clock.  events are the events its runs have drawn, snapshots the
\* snapshots it has returned, raised whether its last call raised.
NewInstance(k) ==
    [order_book_state |-> [i \in 0..(2 * k - 1) |-> 0],
     reference_price |-> 0,
     queue_sizes |-> <<>>,
     book_reference_price |-> 0,
     time |-> 0,
     events |-> <<>>,
     snapshots |-> <<>>,
     raised |-> FALSE]

\* (mutation of InstanceModel: the simulators share one depth array, the
\* first instance's, instead of each holding the array of its own model)
InstanceModelShared(s) == [order_book_state |-> pair.insts[1].order_book_state,
                           reference_price |-> s.reference_price]

InstanceModel(s) == [order_book_state |-> s.order_book_state,
                     reference_price |-> s.reference_price]

InstanceBook(s) == [queue_sizes |-> s.queue_sizes,
                    reference_price |-> s.book_reference_price]

NoInput == [op |-> "none", draws |-> <<>>, event |-> <<>>, fires |-> FALSE,
            draw |-> 0]

\* What a call does to the instance s it is made on, for the values its
\* random calls return:
\*   s.model.initialize_order_book()   draws: np.random.randint(0, 10, 2K)
\*   s.model.update_reference_price()  fires: random.random() < theta,
\*                                     draw: np.random.randint(0, 10)
\*   s.run_simulation(1)               event: what _generate_next_event draws
\*   s._update_order_book()
\*   s._get_current_state()            the caller keeps the snapshot
Feed(s, k, d, input) ==
    IF input.op = "initialize_order_book"
    THEN [s EXCEPT !.order_book_state = input.draws, !.raised = FALSE]
    ELSE IF input.op = "update_reference_price"
    THEN LET m == UpdateReferencePrice(InstanceModel(s), k, d, input.fires,
                                       input.draw)
         IN  [s EXCEPT !.order_book_state = m.order_book_state,
                       !.reference_price = m.reference_price,
                       !.raised = FALSE]
    ELSE IF input.op = "run_simulation"
    THEN LET r == SimPass(InstanceModel(s), InstanceBook(s), k, d, s.time,
                          input.event)
         IN  [s EXCEPT !.order_book_state = r.model.order_book_state,
                       !.reference_price = r.model.reference_price,
                       !.queue_sizes = r.book.queue_sizes,
                       !.book_reference_price = r.book.reference_price,
                       !.time = r.time,
                       !.events = Append(@, input.event),
                       !.snapshots = IF r.raised THEN @
                                     ELSE Append(@, r.snapshot[1]),
                       !.raised = r.raised]
    ELSE IF input.op = "_update_order_book"
    THEN LET b == SimUpdateOrderBook(InstanceModel(s), InstanceBook(s), k, d)
         IN  [s EXCEPT !.queue_sizes = b.queue_sizes,
                       !.book_reference_price = b.reference_price,
                       !.raised = FALSE]
    ELSE [s EXCEPT !.queue_sizes = BookStateTouched(s.queue_sizes, k),
                   !.snapshots = Append(@, SimCurrentState(InstanceBook(s), k,
                                                           d, s.time)),
                   !.raised = FALSE]

\* The calls made on an instance with the values their random calls return.
\* The sizes drawn are the two ends of their range, one for the ask cells and
\* one for the bid cells; the level drawn is the deepest one, the volume 1.
PairInputs(k) ==
    {[NoInput EXCEPT !.op = "initialize_order_book",
                     !.draws = [i \in 0..(2 * k - 1) |-> IF i < k THEN a ELSE b]] :
        a \in {0, MaxDraw}, b \in {0, MaxDraw}}
    \cup {[NoInput EXCEPT !.op = "update_reference_price"]}
    \cup {[NoInput EXCEPT !.op = "update_reference_price", !.fires = TRUE,
                          !.draw = draw] : draw \in {0, MaxDraw}}
    \cup {[NoInput EXCEPT !.op = "run_simulation",
                          !.event = <<e, side, k - 1, 1>>] :
            e \in EventTypes, side \in OrderSides}
    \cup {[NoInput EXCEPT !.op = "_update_order_book"],
          [NoInput EXCEPT !.op = "_get_current_state"]}

\* Two simulators constructed with the same parameters.  same: every call so
\* far drew the same values on both instances; calls: the calls made so far
\* on the instance that is ahead.
InitPair ==
    /\ unit = "SimulatorPair"
    /\ theta_reinit = 0
    /\ tick_size = 1
    /\ \E k \in Ks, d \in Deltas :
          /\ Constructed(k, d)
          /\ pair = [insts |-> <<NewInstance(k), NewInstance(k)>>,
                     pending |-> <<>>, same |-> TRUE, calls |-> 0]

\* A call is made on one instance; the same call on the other instance is
\* still to come.
PairLead(i, input) ==
    /\ unit = "SimulatorPair"
    /\ pair.pending = <<>>
    /\ pair.same
    /\ pair.calls <= MaxSteps + 1
    /\ LET s == Feed(pair.insts[i], K, delta, input)
       IN  /\ ModelInBounds(InstanceModel(s))
           /\ pair' = [pair EXCEPT !.insts[i] = s,
                                   !.pending = <<[to |-> 3 - i, input |-> input]>>,
                                   !.calls = @ + 1]
    /\ call' = [NoCall EXCEPT !.op = input.op, !.id = i]
    /\ UNCHANGED <<unit, K, delta, theta_reinit, tick_size, matchingVars,
                   modelVars, bookVars, simVars>>

\* The same call is made on the other instance; its random calls return
\* values of their own, the same as the first instance's or others.
PairFollow(input) ==
    /\ unit = "SimulatorPair"
    /\ pair.pending # <<>>
    /\ input.op = pair.pending[1].input.op
    /\ LET to == pair.pending[1].to
           s  == Feed(pair.insts[to], K, delta, input)
       IN  /\ pair' = [pair EXCEPT !.insts[to] = s,
                                   !.pending = <<>>,
                                   !.same = (@ /\ input = pair.pending[1].input)]
           /\ call' = [NoCall EXCEPT !.op = input.op, !.id = to]
    /\ UNCHANGED <<unit, K, delta, theta_reinit, tick_size, matchingVars,
                   modelVars, bookVars, simVars>>

NextPair ==
    \/ \E i \in {1, 2} : \E input \in PairInputs(K) : PairLead(i, input)
    \/ \E input \in PairInputs(K) : PairFollow(input)

SpecPair == InitPair /\ [][NextPair]_vars

\* ================================================================ claims
\* The orders held in the queues of one side.
QueueIds(d) == UNION {{d[k][i] : i \in 1..Len(d[k])} : k \in DOMAIN d}

RECURSIVE QueueVolume(_, _)
QueueVolume(queue, ords) ==
    IF queue = <<>> THEN 0 ELSE ords[Head(queue)] + QueueVolume(Tail(queue), ords)

RECURSIVE TotalVolume(_, _)
TotalVolume(d, ords) ==
    IF DOMAIN d = {} THEN 0
    ELSE LET k == SetMin(DOMAIN d)
         IN  QueueVolume(d[k], ords) + TotalVolume(DictDel(d, k), ords)

Opposite(side) == IF side = "buy" THEN asks ELSE bids

\* p is a strictly better price than q for an aggressor of this side
StrictlyBetter(p, q, side) == IF side = "buy" THEN p < q ELSE p > q

FillVolumes(fills) == [i \in 1..Len(fills) |-> fills[i].volume]

Without(queue, id) == SelectSeq(queue, LAMBDA x : x # id)

\* C1: match_market_order returns for every market order in every reachable
\* book, and when it returns the incoming volume is exhausted or no resting
\* volume remains on the opposite side.
C1_MatchTerminates ==
    /\ ~hung
    /\ call.op = "match" =>
          \/ call.remaining = 0
          \/ TotalVolume(Opposite(call.side), orders) = 0

\* C2: the fills of a market order come best price first (ascending ask
\* prices for a buy, descending bid prices for a sell), and none is made at
\* a price while a strictly better opposite price still holds volume.
C2_BestPriceFirst ==
    (call.op = "match" /\ ~hung) =>
       /\ \A i, j \in 1..Len(call.fills) :
             i < j => ~StrictlyBetter(call.fills[j].price, call.fills[i].price,
                                      call.side)
       /\ \A i \in 1..Len(call.fills) : \A k \in DOMAIN Opposite(call.side) :
             StrictlyBetter(k, call.fills[i].price, call.side)
                => QueueVolume(Opposite(call.side)[k], orders) = 0

\* C3: time priority.  In every step, an order that receives a fill has no
\* order added earlier at the same side and price that still rests with
\* unfilled volume.
C3_TimePriority ==
    [][call'.op = "match" =>
         \A o \in DOMAIN orders : orders'[o] < orders[o] =>
            \A e \in DOMAIN orders :
               (/\ e < o
                /\ \E d \in {bids, asks} : \E k \in DOMAIN d :
                      e \in {d[k][i] : i \in 1..Len(d[k])}
                      /\ o \in {d[k][i] : i \in 1..Len(d[k])})
               => ~(e \in QueueIds(bids') \cup QueueIds(asks') /\ orders'[e] > 0)
      ]_vars

\* C3 witness: a market order filled the head of a queue that holds another,
\* later order behind it.
C3_Witness ==
    /\ call.op = "match"
    /\ \E i \in 1..Len(call.fills) :
          /\ call.fills[i].volume > 0
          /\ Len(Opposite(call.side)[call.fills[i].price]) >= 2

\* C4: a market order of volume v into a side whose only resting volume w < v
\* is at one price fills exactly w and leaves that queue empty; the fills
\* never sum to more than v, each is at most the volume still to fill, and
\* every fully consumed resting order is removed from the book.
C4_FillsExact ==
    [][call'.op = "match" =>
         LET opp  == Opposite(call'.side)
             oppN == IF call'.side = "buy" THEN asks' ELSE bids'
             vols == FillVolumes(call'.fills)
         IN  /\ SeqSum(vols) <= call'.volume
             /\ \A i \in 1..Len(vols) :
                   vols[i] <= call'.volume - SeqSum(SubSeq(vols, 1, i - 1))
             /\ \A id \in QueueIds(bids') \cup QueueIds(asks') : orders'[id] > 0
             /\ \A k \in DOMAIN opp :
                   (/\ QueueVolume(opp[k], orders) = TotalVolume(opp, orders)
                    /\ QueueVolume(opp[k], orders) > 0
                    /\ QueueVolume(opp[k], orders) < call'.volume)
                   => /\ SeqSum(vols) = QueueVolume(opp[k], orders)
                      /\ oppN[k] = <<>>
      ]_vars

\* C5: cancel of an order resting in the book returns that order, removes it
\* from its queue and from the identity index, and leaves every other order
\* in its queue in the same relative order.
C5_CancelResting ==
    [][(call'.op = "cancel" /\ call'.id \in QueueIds(bids) \cup QueueIds(asks)) =>
         /\ call'.ret = Some(call'.id)
         /\ call'.id \notin DOMAIN order_id_to_price'
         /\ bids' = [k \in DOMAIN bids |-> Without(bids[k], call'.id)]
         /\ asks' = [k \in DOMAIN asks |-> Without(asks[k], call'.id)]
      ]_vars

\* An identity the book does not know: never added, already filled, or
\* already removed by a cancel.
Unknown(id) ==
    \/ id >= nextId
    \/ id \notin DOMAIN order_id_to_price
    \/ orders[id] = 0

\* C6: cancel of an unknown identity returns none and leaves bids, asks and
\* the identity index unchanged (so a second cancel of an identity returns
\* none).
C6_CancelUnknown ==
    [][(call'.op = "cancel" /\ Unknown(call'.id)) =>
         /\ call'.ret = None
         /\ bids' = bids
         /\ asks' = asks
         /\ order_id_to_price' = order_id_to_price
      ]_vars

\* C6 witness: an order that was added and then removed by a cancel (it is
\* unfilled and no longer indexed) is cancelled again, and none is returned.
C6_Witness ==
    /\ call.op = "cancel"
    /\ call.id < nextId
    /\ call.id \notin DOMAIN order_id_to_price
    /\ orders[call.id] > 0
    /\ call.ret = None

\* The prices of one side that hold a resting order.
RestingPrices(d) == {k \in DOMAIN d : d[k] # <<>>}

\* C7: best_bid is none whenever no buy order rests and otherwise the highest
\* price holding a resting buy order; best_ask is none whenever no sell order
\* rests and otherwise the lowest price holding a resting sell order.
C7_BestPrices ==
    /\ GetBestBid(Book) = IF RestingPrices(bids) = {} THEN None
                          ELSE Some(SetMax(RestingPrices(bids)))
    /\ GetBestAsk(Book) = IF RestingPrices(asks) = {} THEN None
                          ELSE Some(SetMin(RestingPrices(asks)))

\* C8: no crossed book.  In the order matching book and in the level-indexed
\* book, whenever best_bid and best_ask are both defined, best_bid < best_ask.
C8_NoCrossedBook ==
    /\ (/\ unit = "IndividualOrderBook"
        /\ GetBestBid(Book) # None
        /\ GetBestAsk(Book) # None)
       => GetBestBid(Book)[1] < GetBestAsk(Book)[1]
    /\ (/\ unit = "OrderBook"
        /\ BookBestBid(LevelBook, K, delta) # None
        /\ BookBestAsk(LevelBook, K, delta) # None)
       => BookBestBid(LevelBook, K, delta)[1] < BookBestAsk(LevelBook, K, delta)[1]

\* C9: run_simulation(num_steps) never ends in an error, and when it returns
\* it has made exactly num_steps passes and holds exactly num_steps snapshots.
C9_RunCompletes ==
    /\ sim_pc # "raised"
    /\ sim_pc = "returned" => (step = num_steps /\ Len(results) = num_steps)

\* C10: no queue size is negative, for every side and every level in [0, K),
\* in the model's depth vector and in the level-indexed book.
C10_QueueSizesNonNegative ==
    /\ \A side \in SideNames, level \in 0..(K - 1) :
          GetQueueSize(Model, K, side, level) >= 0
    /\ \A side \in OrderSides, level \in 0..(K - 1) :
          BookGetQueueSize(queue_sizes, side, level) >= 0

\* C10 witness: an adjustment by more than the queue held left the queue at 0.
C10_Witness ==
    /\ call.op = "update_queue_size"
    /\ call.before > 0
    /\ call.before + call.volume < 0
    /\ BookGetQueueSize(queue_sizes, call.side, call.level) = 0

\* The cells of the depth vector that a shift by one carries over: cell i of
\* the new vector holds what cell i - by held.
Carried(old, new, by) ==
    \A i \in DOMAIN new : (i - by) \in DOMAIN old => new[i] = old[i - by]

\* C11: an evaluation of the reference-price controller changes the
\* reference price by 0 or by exactly one tick.  It moves up only if ask
\* level 0 was empty and down only if bid level 0 was empty, it makes at most
\* one shift of the depth vector (none when the price stays), and when both
\* best levels were empty it never moves down and moves up whenever it fires.
C11_OneTickController ==
    [][call'.op = "update_reference_price" =>
         LET change   == reference_price' - reference_price
             askEmpty == GetQueueSize(Model, K, "ask", 0) = 0
             bidEmpty == GetQueueSize(Model, K, "bid", 0) = 0
         IN  /\ change \in {0, delta, -delta}
             /\ change = delta => (askEmpty /\ Carried(order_book_state, order_book_state', 1))
             /\ change = -delta => (bidEmpty /\ Carried(order_book_state, order_book_state', -1))
             /\ change = 0 => order_book_state' = order_book_state
             /\ (askEmpty /\ bidEmpty) => change # -delta
             /\ (askEmpty /\ bidEmpty /\ call'.draws[1]) => change = delta
      ]_vars

\* C11 witness: an evaluation moved the price up one tick when both best
\* levels were empty (after the shift they are bid levels 0 and 1).
C11_Witness ==
    /\ K = 2
    /\ call.op = "update_reference_price"
    /\ reference_price = call.before + delta
    /\ order_book_state[K] = 0
    /\ order_book_state[K + 1] = 0

\* C12: an evaluation of the controller re-initializes the whole book with
\* probability theta_reinit.  With theta_reinit = 1 it does so in every
\* evaluation, so that after it each of the 2K level sizes is a fresh value
\* of the replenishment distribution.
C12_Reinitialize ==
    [][(call'.op = "update_reference_price" /\ theta_reinit = 100) =>
         \A i \in 0..(2 * K - 1) : order_book_state'[i] \in 0..MaxDraw
      ]_vars

\* The model after the step.
ModelAfter == [order_book_state |-> order_book_state',
               reference_price |-> reference_price']

\* C13: a Limit(side, level, volume) event raises queue_size(side, level) by
\* exactly volume and a Cancel(side, level, volume) event lowers it by
\* min(volume, queue_size); each leaves every other (side, level) queue and
\* the reference price unchanged.
C13_EventApplication ==
    [][(call'.op \in {"handle_limit_order", "handle_cancellation"} /\ ~call'.raised) =>
         LET size == GetQueueSize(Model, K, call'.side, call'.level)
         IN  /\ GetQueueSize(ModelAfter, K, call'.side, call'.level) =
                   IF call'.op = "handle_limit_order"
                   THEN size + call'.volume
                   ELSE size - Min2(call'.volume, size)
             /\ \A side \in SideNames, level \in 0..(K - 1) :
                   <<side, level>> # <<call'.side, call'.level>> =>
                      GetQueueSize(ModelAfter, K, side, level) =
                         GetQueueSize(Model, K, side, level)
             /\ reference_price' = reference_price
      ]_vars

\* C13 witness: a cancellation of more volume than the queue held emptied a
\* queue that held volume.
C13_Witness ==
    /\ call.op = "handle_cancellation"
    /\ ~call.raised
    /\ call.before > 0
    /\ call.volume > call.before
    /\ GetQueueSize(Model, K, call.side, call.level) = 0

\* C14: an adjustment (update_queue_size, handle_limit_order,
\* handle_cancellation) with a level outside [0, K) fails with an error and
\* leaves the book unchanged, and no queue size is ever tracked for a level
\* outside [0, K).
C14_LevelRange ==
    [][/\ (/\ call'.op \in {"update_queue_size", "handle_limit_order",
                            "handle_cancellation"}
           /\ call'.level \notin 0..(K - 1))
          => /\ call'.raised
             /\ UNCHANGED <<modelVars, bookVars>>
       /\ \A key \in DOMAIN queue_sizes' : key[2] \in 0..(K - 1)
      ]_vars

C16_SnapshotDepth ==
    unit = "OrderBook" =>
       LET snapshot == SimCurrentState(LevelBook, K, delta, time)
           depth    == snapshot.order_book_state
       IN  /\ DOMAIN snapshot = {"time", "reference_price", "mid_price", "spread",
                                 "order_book_state"}
           /\ Len(depth.bids) = K
           /\ Len(depth.asks) = K
           /\ \A i \in 1..K :
                 /\ depth.bids[i].size = BookGetQueueSize(queue_sizes, "buy", i - 1)
                 /\ depth.asks[i].size = BookGetQueueSize(queue_sizes, "sell", i - 1)

OppositeSide(side) == IF side = "bid" THEN "ask" ELSE "bid"

\* C17: a Market(side, volume) event consumes from the best level of the
\* opposite side, the lowest level holding volume: it lowers that level by
\* min(volume, queue_size) and leaves every other level as it is; it leaves
\* the whole book as it is only if the opposite side holds no volume.
C17_MarketBestLevel ==
    [][(call'.op = "handle_market_order" /\ ~call'.raised) =>
         LET opp    == OppositeSide(call'.side)
             levels == {l \in 0..(K - 1) : GetQueueSize(Model, K, opp, l) > 0}
         IN  IF levels = {}
             THEN order_book_state' = order_book_state
             ELSE LET best == SetMin(levels)
                      size == GetQueueSize(Model, K, opp, best)
                  IN  /\ GetQueueSize(ModelAfter, K, opp, best) =
                            size - Min2(call'.volume, size)
                      /\ \A side \in SideNames, level \in 0..(K - 1) :
                            <<side, level>> # <<opp, best>> =>
                               GetQueueSize(ModelAfter, K, side, level) =
                                  GetQueueSize(Model, K, side, level)
      ]_vars

\* C18: every event the event clock draws is admissible in the state it is
\* drawn in: a cancellation only for a (side, level) that holds volume, a
\* market order only when the opposite side holds volume at its best level.
C18_AdmissibleEvents ==
    [][call'.op = "model_pass" =>
         /\ call'.event = "cancel" =>
                GetQueueSize(Model, K, call'.side, call'.level) > 0
         /\ call'.event = "market" =>
                \E l \in 0..(K - 1) :
                   GetQueueSize(Model, K, OppositeSide(call'.side), l) > 0
      ]_vars

\* The number of cells of S whose size in f is v.
CountOf(f, S, v) == Cardinality({c \in S : f[c] = v})

RECURSIVE SumOver(_, _)
SumOver(f, S) ==
    IF S = {} THEN 0
    ELSE LET c == CHOOSE x \in S : TRUE IN f[c] + SumOver(f, S \ {c})

\* Between the sizes old and new of the cells S, one cell was dropped and one
\* cell was filled afresh; the size of every other cell was carried to one
\* cell of its own, and the total changed by the fresh size less the dropped.
ShiftCarries(old, new, S) ==
    \E dropped \in S, fresh \in S :
       /\ SumOver(new, S) = SumOver(old, S) - old[dropped] + new[fresh]
       /\ \A v \in {old[c] : c \in S} \cup {new[c] : c \in S} :
             CountOf(old, S \ {dropped}, v) = CountOf(new, S \ {fresh}, v)

\* The sizes of the window of the level-indexed book.
WindowSizes(qs, k) ==
    [c \in OrderSides \X (0..(k - 1)) |-> BookGetQueueSize(qs, c[1], c[2])]

\* C19: a shift of one tick drops one level and replenishes one level with a
\* fresh size; every other level's size is carried to exactly one level, so
\* the total volume after is the total before, less the dropped size, plus
\* the fresh size.  For the model's depth vector and the level-indexed book.
C19_ShiftPreservesVolume ==
    [][/\ (call'.op = "update_reference_price"
           /\ reference_price' # reference_price)
          => ShiftCarries(order_book_state, order_book_state', 0..(2 * K - 1))
       /\ (call'.op = "book_update_reference_price"
           /\ RoundHalfEven(call'.volume - book_reference_price, delta) \in {-1, 1})
          => ShiftCarries(WindowSizes(queue_sizes, K), WindowSizes(queue_sizes', K),
                          OrderSides \X (0..(K - 1)))
      ]_vars

\* C20: add stores a limit order under its price bucketed to the nearest
\* tick: the key it rests under is round(price / tick_size) * tick_size, so
\* that two orders rest under the same key exactly when their prices round
\* to the same tick.
C20_PriceBucket ==
    [][(call'.op = "add" /\ ~call'.raised) =>
         order_id_to_price'[call'.id] =
            RoundHalfEven(call'.price, tick_size) * tick_size
      ]_vars

\* The places (side, price key, position) at which an order is queued.
PlacesIn(side, d, id) ==
    UNION {{<<side, k, i>> : i \in {j \in 1..Len(d[k]) : d[k][j] = id}} :
              k \in DOMAIN d}

PlacesOf(id) == PlacesIn("buy", bids, id) \cup PlacesIn("sell", asks, id)

\* C21: index consistency of the order matching book.  After any sequence of
\* add, cancel and match_market_order calls (each order object added once),
\* the keys of order_id_to_price are exactly the identities of the orders
\* held in the bid and ask queues, each order is held at exactly one place,
\* and its identity maps to the price key of the queue that holds it.
C21_IndexConsistency ==
    unit = "IndividualOrderBook" =>
       /\ DOMAIN order_id_to_price = QueueIds(bids) \cup QueueIds(asks)
       /\ \A id \in DOMAIN order_id_to_price :
             /\ Cardinality(PlacesOf(id)) = 1
             /\ \A p \in PlacesOf(id) : p[2] = order_id_to_price[id]

\* C21 witness: a market order has filled part of the book, an order has left
\* the book and another is still held and indexed.
C21_Witness ==
    /\ unit = "IndividualOrderBook"
    /\ ~hung
    /\ call.op = "match"
    /\ call.fills # <<>>
    /\ DOMAIN order_id_to_price # {}
    /\ \E id \in 1..(nextId - 1) : id \notin DOMAIN order_id_to_price

\* C22: a shift of the model carries the emptied best-level slot across the
\* mid.  After an up-shift bid level 0 has size 0, every old bid level l is
\* at level l + 1 (old bid level K - 1 is dropped), every old ask level
\* l + 1 is at level l and ask level K - 1 is the fresh draw; after a
\* down-shift ask level 0 has size 0, with the sides exchanged.
C22_ShiftAcrossMid ==
    [][call'.op = "update_reference_price" =>
         \A side \in SideNames :
            reference_price' = reference_price +
                                  (IF side = "bid" THEN delta ELSE -delta)
            => /\ GetQueueSize(ModelAfter, K, side, 0) = 0
               /\ \A l \in 0..(K - 2) :
                     /\ GetQueueSize(ModelAfter, K, side, l + 1) =
                           GetQueueSize(Model, K, side, l)
                     /\ GetQueueSize(ModelAfter, K, OppositeSide(side), l) =
                           GetQueueSize(Model, K, OppositeSide(side), l + 1)
               /\ GetQueueSize(ModelAfter, K, OppositeSide(side), K - 1) =
                     call'.draws[2]
      ]_vars

\* C22 witness: after an up-shift bid level 0 is empty, bid level 1 holds the
\* volume carried from bid level 0 and ask level K - 1 holds a fresh draw.
C22_Witness ==
    /\ K = 2
    /\ call.op = "update_reference_price"
    /\ reference_price = call.before + delta
    /\ GetQueueSize(Model, K, "bid", 0) = 0
    /\ GetQueueSize(Model, K, "bid", 1) > 0
    /\ GetQueueSize(Model, K, "ask", K - 1) = call.draws[2]
    /\ call.draws[2] > 0

\* The model's name of a side of the level-indexed book.
SideName(side) == IF side = "buy" THEN "bid" ELSE "ask"

\* C23: mirroring.  After _update_order_book the level-indexed book agrees
\* with the model: the reference prices are equal and, for each side and
\* every level in [0, K), the book's queue size is the model's queue size of
\* the same side and level.
C23_Mirroring ==
    call.op = "_update_order_book" =>
       /\ book_reference_price = reference_price
       /\ \A side \in OrderSides, level \in 0..(K - 1) :
             BookGetQueueSize(queue_sizes, side, level) =
                GetQueueSize(Model, K, SideName(side), level)

====
